---------------------------- MODULE Spec2Model ----------------------------
(***************************************************************************)
(* Reposy: a working directory kept convergent with an S3 prefix through a *)
(* remote index of RemoteItems.  The module models                         *)
(*   - the local filesystem of each device, the remote store and index,    *)
(*     Repository.Sync / compareAndSync and the S3 client operations       *)
(*     (specification Spec);                                               *)
(*   - the SyncEngine busy flag, ticker, stop channel and the control      *)
(*     plane tasks of the daemon (specification SpecEngine).               *)
(***************************************************************************)
EXTENDS Integers, Sequences, FiniteSets, Bags, TLC

VARIABLES
    now,        \* time.Now().Unix(), shared wall clock
    paths,      \* the slash paths the run works with
    fs,         \* fs[d]: files of device d's working directory, name -> [data, mtime]
    foldsCase,  \* foldsCase[d]: device d's filesystem is case-insensitive
    extra,      \* extra[d]: the root directory holds entries the listing does not return
    repo,       \* repo[d]: Repository {IgnoreCase, LastLocalFiles, Status}
    alive,      \* alive[d]: the daemon process of device d is running
    store,      \* objects under the S3 prefix, key -> object (the index object included)
    pass,       \* what the most recent Repository.Sync did, cleared by any other step
    settled,    \* settled[d]: d's last Sync succeeded and nothing changed since
    track,      \* per path: a change one device made in sync and then published
    edits,      \* user file operations so far
    ticks,      \* clock advances so far
    engine,     \* the SyncEngine of one daemon: its fields, its tickers and channels
    tasks,      \* the goroutines of that daemon, a bag: goroutines have no names
    signed      \* the request the signer signed last, and what it computed

syncVars == <<now, paths, fs, foldsCase, extra, repo, alive, store, pass, settled, track,
              edits, ticks>>

-----------------------------------------------------------------------------
(* Bounds of the exploration *)

MaxEdits == 1
MaxTicks == 1
MaxTime == 2

(* Program constants *)

INDEX_FILE == ".reposyindex"
FETCH_HEAD == ".git/FETCH_HEAD"
RetentionSeconds == 30 * 24 * 60 * 60
DaySeconds == 24 * 60 * 60

Devices == {"A", "B"}
Universes == { {"a.txt"}, {"Foo.txt", "foo.txt"}, {FETCH_HEAD}, {INDEX_FILE} }
\* a working directory that may hold a file at the reserved index path beside another file
IndexUniverse == {INDEX_FILE, "a.txt"}
Contents == {1, 2}
EmptyBytes == 0
IndexBytes == 9
TickSteps == {1, RetentionSeconds}

-----------------------------------------------------------------------------
(* Go maps: functions whose domain is the set of keys *)

EmptyMap == [k \in {} |-> 0]
Assign(m, k, v) == [x \in (DOMAIN m) \cup {k} |-> IF x = k THEN v ELSE m[x]]
Drop(m, k) == [x \in (DOMAIN m) \ {k} |-> m[x]]
Has(m, k) == k \in DOMAIN m

Perms(S) == {s \in [1..Cardinality(S) -> S] : \A i, j \in 1..Cardinality(S) : s[i] = s[j] => i = j}

-----------------------------------------------------------------------------
(* Names and the local filesystem *)

ToLower(s) == IF s = "Foo.txt" THEN "foo.txt" ELSE s
DirOf(p) == IF p = FETCH_HEAD THEN ".git" ELSE "."
BaseOf(p) == IF p = FETCH_HEAD THEN "FETCH_HEAD" ELSE p

\* The directory entry a lookup of name p reaches: p itself, or on a
\* case-insensitive filesystem the entry that differs from p only by case.
Resolve(files, folds, p) ==
    IF Has(files, p) THEN {p}
    ELSE IF folds THEN {q \in DOMAIN files : DirOf(q) = DirOf(p) /\ ToLower(BaseOf(q)) = ToLower(BaseOf(p))}
    ELSE {}

StatExists(files, folds, p) == Resolve(files, folds, p) # {}

ReadFile(files, folds, p) == files[CHOOSE q \in Resolve(files, folds, p) : TRUE]

\* os.WriteFile followed by os.Chtimes: an existing entry keeps its name.
WriteFile(files, folds, p, data, mtime) ==
    LET hit == Resolve(files, folds, p)
        name == IF hit = {} THEN p ELSE CHOOSE q \in hit : TRUE
    IN Assign(files, name, [data |-> data, mtime |-> mtime])

RemoveFile(files, folds, p) ==
    LET hit == Resolve(files, folds, p)
    IN [x \in (DOMAIN files) \ hit |-> files[x]]

checkFilenameConflictIgnoringCase(files, folds, p) ==
    IF ~StatExists(files, folds, p) THEN FALSE
    ELSE \E q \in DOMAIN files :
            /\ DirOf(q) = DirOf(p)
            /\ ToLower(BaseOf(q)) = ToLower(BaseOf(p))
            /\ BaseOf(q) # BaseOf(p)

-----------------------------------------------------------------------------
(* Records *)

FileItem(p, mt, tomb) == [FilePath |-> p, ModTime |-> mt, Tombstone |-> tomb]
RemoteItem(mt, tomb, sha) == [ModTime |-> mt, Tombstone |-> tomb, SHA256 |-> sha]

Sha256Hex(data) ==
    CASE data = 0 -> "e3b0c442"
      [] data = 1 -> "6b86b273"
      [] data = 2 -> "d4735e3a"
      [] OTHER -> "19581e27"

NilFiles == [isNil |-> TRUE, items |-> EmptyMap]
Files(m) == [isNil |-> FALSE, items |-> m]

IdleStatus == [LastSync |-> 0, InProgress |-> FALSE, Error |-> ""]

-----------------------------------------------------------------------------
(* The S3 client over the object store *)

FileObject(data, modified, tomb) ==
    [kind |-> "file", data |-> data, modified |-> modified, tomb |-> tomb, items |-> EmptyMap]
IndexObject(items) ==
    [kind |-> "index", data |-> IndexBytes, modified |-> 0, tomb |-> "", items |-> items]

\* S3Client.List: [err, items]
List(objs) ==
    IF ~Has(objs, INDEX_FILE) THEN [err |-> FALSE, items |-> EmptyMap]
    ELSE IF objs[INDEX_FILE].kind = "index" THEN [err |-> FALSE, items |-> objs[INDEX_FILE].items]
    ELSE [err |-> TRUE, items |-> EmptyMap]

Put_DropsContent(objs, data, modTime, slashPath) ==
    IF slashPath = INDEX_FILE THEN objs
    ELSE Assign(objs, slashPath, FileObject(EmptyBytes, modTime, "0"))

Put(objs, data, modTime, slashPath) ==
    IF slashPath = INDEX_FILE THEN objs
    ELSE Assign(objs, slashPath, FileObject(data, modTime, "0"))

\* S3Client.Get: [err, data]
Get(objs, slashPath) ==
    IF Has(objs, slashPath) THEN [err |-> FALSE, data |-> objs[slashPath].data]
    ELSE [err |-> TRUE, data |-> EmptyBytes]

MarkTombstone(objs, slashPath, t) == Assign(objs, slashPath, FileObject(EmptyBytes, t, "1"))

Delete(objs, slashPath) == Drop(objs, slashPath)

Finish(objs, meta, changed) == IF changed THEN Assign(objs, INDEX_FILE, IndexObject(meta)) ELSE objs


-----------------------------------------------------------------------------
(* compareAndSync.  The working state w of one pass:                         *)
(*   files, local (localItems), remote (remoteItems), objs (the store),      *)
(*   changed (remoteChanged), ops (the calls made, in order), skipped (paths *)
(*   left alone by the case rule), err (an error was returned), atPurge (the *)
(*   index as the purge loop finds it).                                      *)
(* The context c of the pass: folds, ignoreCase, now, lnew (localNewerItems),*)
(*   rnew (remoteNewerItems), fault (the call that fails, if any), delFail   *)
(*   (the paths whose Delete fails).                                         *)

NoFault == [stage |-> "none", path |-> ""]
FaultAt(c, stage, p) == c.fault.stage = stage /\ c.fault.path = p

Fail(w) == [w EXCEPT !.err = TRUE]
Called(w, op, p) == [w EXCEPT !.ops = Append(@, <<op, p>>)]

localNewerItems(localItems, remoteItems) ==
    [p \in {q \in DOMAIN localItems :
              \/ ~Has(remoteItems, q)
              \/ localItems[q].ModTime > remoteItems[q].ModTime} |-> localItems[p]]

remoteNewerItems(localItems, remoteItems) ==
    [p \in {q \in DOMAIN remoteItems :
              \/ ~Has(localItems, q)
              \/ localItems[q].ModTime < remoteItems[q].ModTime} |-> remoteItems[p]]

\* repository.go 345-357: the hash that is stored, and the skip
LocalSHA256(w, p, data) ==
    IF p = FETCH_HEAD /\ Has(w.remote, p) /\ ~w.remote[p].Tombstone THEN Sha256Hex(data) ELSE ""

SkipUpload_Never(w, p, data) == FALSE

SkipUpload(w, p, data) ==
    /\ p = FETCH_HEAD
    /\ Has(w.remote, p)
    /\ ~w.remote[p].Tombstone
    /\ Sha256Hex(data) = w.remote[p].SHA256

\* one iteration of the loop over localNewerItems
LocalWinsStep(w, c, p) ==
    LET localItem == c.lnew[p] IN
    IF localItem.Tombstone THEN
        IF FaultAt(c, "localwins", p) THEN Fail(Called(w, "MarkTombstone", p))
        ELSE [Called(w, "MarkTombstone", p) EXCEPT
                !.objs = MarkTombstone(@, p, c.now),
                !.remote = Assign(@, p, RemoteItem(localItem.ModTime, TRUE, "")),
                !.changed = TRUE]
    ELSE IF ~StatExists(w.files, c.folds, localItem.FilePath) THEN Fail(w)
    ELSE LET file == ReadFile(w.files, c.folds, localItem.FilePath) IN
         IF SkipUpload(w, p, file.data) THEN w
         ELSE IF FaultAt(c, "localwins", p) THEN Fail(Called(w, "Put", p))
         ELSE [Called(w, "Put", p) EXCEPT
                 !.objs = Put(@, file.data, file.mtime, p),
                 !.remote = Assign(@, p, RemoteItem(localItem.ModTime, FALSE, LocalSHA256(w, p, file.data))),
                 !.changed = TRUE]

\* one iteration of the loop over remoteNewerItems
RemoteWinsStep(w, c, p) ==
    LET remoteItem == c.rnew[p] IN
    IF c.ignoreCase /\ checkFilenameConflictIgnoringCase(w.files, c.folds, p)
    THEN [w EXCEPT !.skipped = @ \cup {p}]
    ELSE IF ~remoteItem.Tombstone THEN
        LET got == Get(w.objs, p) IN
        IF got.err \/ FaultAt(c, "remotewins", p) THEN Fail(Called(w, "Get", p))
        ELSE [Called(Called(w, "Get", p), "WriteFile", p) EXCEPT
                !.files = WriteFile(@, c.folds, p, got.data, remoteItem.ModTime),
                !.local = Assign(@, p, FileItem(p, remoteItem.ModTime, FALSE))]
    ELSE IF FaultAt(c, "remotewins", p) THEN Fail(w)
    ELSE IF StatExists(w.files, c.folds, p)
         THEN [Called(w, "Remove", p) EXCEPT
                 !.files = RemoveFile(@, c.folds, p),
                 !.local = Drop(@, p)]
         ELSE [w EXCEPT !.local = Drop(@, p)]

Outdated_AtThirtyDays(t, remoteItem) == t - remoteItem.ModTime >= RetentionSeconds

\* repository.go 444: the tombstone is older than the retention window
Outdated(t, remoteItem) == t - remoteItem.ModTime > RetentionSeconds

PurgeStep_FatalOnFailure(w, c, p) ==
    IF Has(w.remote, p) /\ w.remote[p].Tombstone /\ Outdated(c.now, w.remote[p]) THEN
        IF p \in c.delFail THEN Fail(Called(w, "Delete", p))
        ELSE [Called(w, "Delete", p) EXCEPT
                !.objs = Delete(@, p),
                !.remote = Drop(@, p),
                !.changed = TRUE]
    ELSE w

PurgeStep_ChangedOnFailure(w, c, p) ==
    IF Has(w.remote, p) /\ w.remote[p].Tombstone /\ Outdated(c.now, w.remote[p]) THEN
        IF p \in c.delFail THEN [Called(w, "Delete", p) EXCEPT !.changed = TRUE]
        ELSE [Called(w, "Delete", p) EXCEPT
                !.objs = Delete(@, p),
                !.remote = Drop(@, p),
                !.changed = TRUE]
    ELSE w

\* one iteration of the loop that removes outdated tombstones
PurgeStep(w, c, p) ==
    IF Has(w.remote, p) /\ w.remote[p].Tombstone /\ Outdated(c.now, w.remote[p]) THEN
        IF p \in c.delFail THEN Called(w, "Delete", p)
        ELSE [Called(w, "Delete", p) EXCEPT
                !.objs = Delete(@, p),
                !.remote = Drop(@, p),
                !.changed = TRUE]
    ELSE w

RECURSIVE LocalWinsLoop(_, _, _, _)
LocalWinsLoop(w, c, ord, i) ==
    IF i > Len(ord) \/ w.err THEN w
    ELSE LocalWinsLoop(IF Has(c.lnew, ord[i]) THEN LocalWinsStep(w, c, ord[i]) ELSE w, c, ord, i + 1)

RECURSIVE RemoteWinsLoop(_, _, _, _)
RemoteWinsLoop(w, c, ord, i) ==
    IF i > Len(ord) \/ w.err THEN w
    ELSE RemoteWinsLoop(IF Has(c.rnew, ord[i]) THEN RemoteWinsStep(w, c, ord[i]) ELSE w, c, ord, i + 1)

RECURSIVE PurgeLoop(_, _, _, _)
PurgeLoop(w, c, ord, i) ==
    IF i > Len(ord) \/ w.err THEN w
    ELSE PurgeLoop(PurgeStep(w, c, ord[i]), c, ord, i + 1)

\* Finish makes its request, the one call of it that can fail, only when changed
FinishStep(w, c) ==
    IF w.err THEN w
    ELSE IF w.changed /\ c.fault.stage = "finish" THEN Fail(Called(w, "Finish", INDEX_FILE))
    ELSE [Called(w, "Finish", INDEX_FILE) EXCEPT !.objs = Finish(@, w.remote, w.changed)]

compareAndSync_PurgeFirst(files, objs, localItems, remoteItems, c0, ord) ==
    LET c == [c0 EXCEPT !.lnew = localNewerItems(localItems, remoteItems),
                        !.rnew = remoteNewerItems(localItems, remoteItems)]
        w0 == [files |-> files, local |-> localItems, remote |-> remoteItems, objs |-> objs,
               changed |-> FALSE, ops |-> <<>>, skipped |-> {}, err |-> FALSE, atPurge |-> remoteItems]
        w1 == PurgeLoop(w0, c, ord, 1)
        w2 == LocalWinsLoop(w1, c, ord, 1)
        w3 == RemoteWinsLoop(w2, c, ord, 1)
    IN FinishStep(w3, c)

\* repository.go 283-462.  ord is the order in which the map loops visit the paths.
compareAndSync(files, objs, localItems, remoteItems, c0, ord) ==
    LET c == [c0 EXCEPT !.lnew = localNewerItems(localItems, remoteItems),
                        !.rnew = remoteNewerItems(localItems, remoteItems)]
        w0 == [files |-> files, local |-> localItems, remote |-> remoteItems, objs |-> objs,
               changed |-> FALSE, ops |-> <<>>, skipped |-> {}, err |-> FALSE, atPurge |-> EmptyMap]
        w1 == LocalWinsLoop(w0, c, ord, 1)
        w2 == RemoteWinsLoop(w1, c, ord, 1)
        w3 == PurgeLoop([w2 EXCEPT !.atPurge = w2.remote], c, ord, 1)
    IN FinishStep(w3, c)

-----------------------------------------------------------------------------
(* Repository *)

\* repository.go 122-224, for a root directory that exists; other: the root
\* holds entries that are not files of the listing (ignored files, directories)
GetLocalFiles(files, other) ==
    IF DOMAIN files = {} /\ ~other THEN NilFiles
    ELSE Files([p \in DOMAIN files |-> FileItem(p, files[p].mtime, FALSE)])

\* repository.go 85-99: the paths of the previous snapshot that are gone
RemovedSinceLastSync(last, localFiles) ==
    IF last.isNil THEN {}
    ELSE {p \in DOMAIN last.items : ~last.items[p].Tombstone /\ ~Has(localFiles.items, p)}

WithTombstones(last, localFiles, t) ==
    LET gone == RemovedSinceLastSync(last, localFiles) IN
    [localFiles EXCEPT !.items =
        [p \in (DOMAIN @) \cup gone |->
            IF p \in gone THEN FileItem(last.items[p].FilePath, t, TRUE) ELSE @[p]]]

\* a write to a nil map
NilMapWrite(last, localFiles) == localFiles.isNil /\ RemovedSinceLastSync(last, localFiles) # {}


-----------------------------------------------------------------------------
(* Observation of passes *)

NoPass == [dev |-> "", ok |-> FALSE, panic |-> FALSE, stage |-> "", fault |-> NoFault, again |-> "no", t |-> 0,
           L |-> EmptyMap, R |-> EmptyMap, files0 |-> EmptyMap, objs0 |-> EmptyMap,
           local |-> EmptyMap, atPurge |-> EmptyMap, ops |-> <<>>, changed |-> FALSE, skipped |-> {}, delFail |-> {},
           gone0 |-> {}, gone |-> {}, meta |-> EmptyMap]

NoTrack == [phase |-> "idle", path |-> "", kind |-> "", by |-> "", data |-> 0, mtime |-> 0, at |-> 0]

Other(d) == CHOOSE e \in Devices : e # d

\* both devices hold p, with one content and time, as the index records it
InSync(p) ==
    LET idx == List(store).items IN
    /\ \A d \in Devices :
          /\ Has(fs[d], p)
          /\ ~repo[d].LastLocalFiles.isNil
          /\ Has(repo[d].LastLocalFiles.items, p)
          /\ repo[d].LastLocalFiles.items[p] = FileItem(p, fs[d][p].mtime, FALSE)
    /\ fs["A"][p] = fs["B"][p]
    /\ Has(idx, p)
    /\ ~idx[p].Tombstone
    /\ idx[p].ModTime = fs["A"][p].mtime
    /\ Has(store, p)
    /\ store[p].tomb = "0"
    /\ store[p].data = fs["A"][p].data

TrackEdit(d, p, kind, data) ==
    IF InSync(p) /\ (kind = "upd" => now > fs[d][p].mtime)
    THEN [phase |-> "changed", path |-> p, kind |-> kind, by |-> d, data |-> data, mtime |-> now, at |-> 0]
    ELSE NoTrack

TrackSync(d, ok) ==
    CASE track.phase = "changed" /\ track.by = d /\ ok -> [track EXCEPT !.phase = "published", !.at = now]
      [] track.phase = "changed" -> track
      [] track.phase = "published" /\ track.by # d /\ ok /\ now - track.at <= RetentionSeconds
            -> [track EXCEPT !.phase = "applied"]
      [] track.phase = "published" /\ (track.by = d \/ ~ok) -> track
      [] track.phase = "reloaded" /\ track.by = d /\ ok -> [track EXCEPT !.phase = "redone"]
      [] track.phase = "reloaded" -> track
      [] OTHER -> NoTrack

-----------------------------------------------------------------------------
(* Actions of specification Spec *)

\* the calls of a pass that can be made to fail: the listings, the action on a
\* path of either loop, Finish
Faults(localItems, remoteItems) ==
    {NoFault}
    \cup {[stage |-> s, path |-> ""] : s \in {"local", "remote", "finish"}}
    \cup {[stage |-> "localwins", path |-> p] : p \in DOMAIN localNewerItems(localItems, remoteItems)}
    \cup {[stage |-> "remotewins", path |-> p] : p \in DOMAIN remoteNewerItems(localItems, remoteItems)}

\* the tombstones of the listed index that a pass at time t may try to delete
Purgeable(remoteItems, t) ==
    {p \in DOMAIN remoteItems : remoteItems[p].Tombstone /\ Outdated(t, remoteItems[p])}

\* repository.go 68-75: the status a pass leaves.  On entry Sync sets InProgress
\* and clears Error; an error return sets Error; the deferred function clears
\* InProgress and stamps LastSync on every exit, a panic included.
ExitStatus(t, err) == [LastSync |-> t, InProgress |-> FALSE, Error |-> err]

\* Repository.Sync, repository.go 65-120
Sync(d, faulty) ==
    /\ alive[d]
    /\ \E ord \in Perms(paths),
          fault \in (IF faulty
                     THEN Faults(WithTombstones(repo[d].LastLocalFiles, GetLocalFiles(fs[d], extra[d]), now).items,
                                 List(store).items)
                     ELSE {NoFault}),
          delFail \in (IF faulty THEN SUBSET Purgeable(List(store).items, now) ELSE {{}}) :
         LET last == repo[d].LastLocalFiles
             listed == GetLocalFiles(fs[d], extra[d])
             localFiles == WithTombstones(last, listed, now)
             remote == List(store)
             c == [folds |-> foldsCase[d], ignoreCase |-> repo[d].IgnoreCase, now |-> now,
                   lnew |-> EmptyMap, rnew |-> EmptyMap, fault |-> fault, delFail |-> delFail]
             w == compareAndSync(fs[d], store, localFiles.items, remote.items, c, ord)
             stage == CASE fault.stage = "local" -> "local"
                        [] NilMapWrite(last, listed) -> "panic"
                        [] remote.err \/ fault.stage = "remote" -> "remote"
                        [] w.err -> "sync"
                        [] OTHER -> "ok"
             \* the paths whose files passes of d removed and did not write again
             gone0 == IF pass.dev = d THEN pass.gone ELSE {}
             gone == (gone0 \cup ((DOMAIN fs[d]) \ (DOMAIN w.files))) \ (DOMAIN w.files)
             seen == [NoPass EXCEPT !.dev = d, !.stage = stage, !.fault = fault, !.again = settled[d], !.t = now,
                                    !.files0 = fs[d], !.objs0 = store, !.gone0 = gone0, !.gone = gone0]
         IN
         /\ fault.stage \in {"localwins", "remotewins", "finish"} => stage = "sync"
         /\ fault.stage \in {"local", "remote"} => delFail = {} /\ ord = CHOOSE o \in Perms(paths) : TRUE
         /\ \A p \in delFail : \E i \in 1..Len(w.ops) : w.ops[i] = <<"Delete", p>>
         /\ CASE stage = "local" ->
                   /\ repo' = [repo EXCEPT ![d].Status = ExitStatus(now, "Failed to get local files")]
                   /\ pass' = seen
                   /\ UNCHANGED <<fs, store, alive>>
              [] stage = "panic" ->
                   /\ alive' = [alive EXCEPT ![d] = FALSE]
                   /\ repo' = [repo EXCEPT ![d].Status = ExitStatus(now, "")]
                   /\ pass' = [seen EXCEPT !.panic = TRUE]
                   /\ UNCHANGED <<fs, store>>
              [] stage = "remote" ->
                   /\ repo' = [repo EXCEPT ![d].Status = ExitStatus(now, "Failed to get remote files")]
                   /\ pass' = [seen EXCEPT !.L = localFiles.items]
                   /\ UNCHANGED <<fs, store, alive>>
              [] stage = "sync" ->
                   /\ repo' = [repo EXCEPT ![d].Status = ExitStatus(now, "Failed to sync files")]
                   /\ fs' = [fs EXCEPT ![d] = w.files]
                   /\ store' = w.objs
                   /\ pass' = [seen EXCEPT !.L = localFiles.items, !.R = remote.items, !.ops = w.ops,
                                           !.changed = w.changed, !.skipped = w.skipped, !.gone = gone,
                                           !.meta = w.remote, !.delFail = delFail]
                   /\ UNCHANGED alive
              [] OTHER ->
                   /\ repo' = [repo EXCEPT
                                 ![d].Status = ExitStatus(now, ""),
                                 ![d].LastLocalFiles = IF localFiles.isNil THEN NilFiles ELSE Files(w.local)]
                   /\ fs' = [fs EXCEPT ![d] = w.files]
                   /\ store' = w.objs
                   /\ pass' = [seen EXCEPT !.ok = TRUE, !.L = localFiles.items, !.R = remote.items,
                                           !.local = w.local, !.atPurge = w.atPurge, !.ops = w.ops, !.changed = w.changed, !.skipped = w.skipped,
                                           !.delFail = delFail, !.gone = gone, !.meta = w.remote]
                   /\ UNCHANGED alive
         /\ settled' = [e \in Devices |->
                          IF e = d THEN (IF stage # "ok" THEN "no" ELSE IF delFail = {} THEN "yes" ELSE "unpurged")
                          ELSE IF store' # store THEN "no" ELSE settled[e]]
         /\ track' = IF stage = "panic" THEN NoTrack ELSE TrackSync(d, stage = "ok")
    /\ UNCHANGED <<now, paths, foldsCase, extra, edits, ticks, engine, tasks, signed>>

\* the user writes a file of the working directory
UserWrite(d, p, data) ==
    /\ edits < MaxEdits
    /\ fs' = [fs EXCEPT ![d] = WriteFile(@, foldsCase[d], p, data, now)]
    /\ track' = TrackEdit(d, p, "upd", data)
    /\ edits' = edits + 1
    /\ settled' = [settled EXCEPT ![d] = "no"]
    /\ pass' = NoPass
    /\ UNCHANGED <<now, paths, foldsCase, extra, repo, alive, store, ticks, engine, tasks, signed>>

\* the user removes a file of the working directory
UserDelete(d, p) ==
    /\ edits < MaxEdits
    /\ StatExists(fs[d], foldsCase[d], p)
    /\ fs' = [fs EXCEPT ![d] = RemoveFile(@, foldsCase[d], p)]
    /\ track' = TrackEdit(d, p, "del", 0)
    /\ edits' = edits + 1
    /\ settled' = [settled EXCEPT ![d] = "no"]
    /\ pass' = NoPass
    /\ UNCHANGED <<now, paths, foldsCase, extra, repo, alive, store, ticks, engine, tasks, signed>>

\* the clock advances
Tick(dt) ==
    /\ ticks < MaxTicks
    /\ now' = now + dt
    /\ ticks' = ticks + 1
    /\ settled' = [d \in Devices |-> IF settled[d] = "yes" THEN "later" ELSE IF settled[d] = "later" THEN "later" ELSE "no"]
    /\ pass' = NoPass
    /\ track' = IF track.phase \in {"applied", "redone"} THEN NoTrack ELSE track
    /\ UNCHANGED <<paths, fs, foldsCase, extra, repo, alive, store, edits, engine, tasks, signed>>

\* a deletion by the user of d that no pass of d has seen stays tracked over
\* the replacement of the Repository of d
TrackRestart(d) ==
    IF track.phase = "changed" /\ track.by = d /\ track.kind = "del"
    THEN [track EXCEPT !.phase = "reloaded"]
    ELSE NoTrack

Restart_KeepsSnapshot(d) ==
    /\ repo[d].LastLocalFiles # NilFiles \/ ~alive[d] \/ repo[d].Status # IdleStatus
    /\ alive' = [alive EXCEPT ![d] = TRUE]
    /\ repo' = [repo EXCEPT ![d].Status = IdleStatus]
    /\ settled' = [settled EXCEPT ![d] = "no"]
    /\ pass' = NoPass
    /\ track' = TrackRestart(d)
    /\ UNCHANGED <<now, paths, fs, foldsCase, extra, store, edits, ticks, engine, tasks, signed>>

\* the Repository of device d is built again, at the start of the daemon or by
\* UpdateConfig: NewRepository, repository.go 46-53
Restart(d) ==
    /\ repo[d].LastLocalFiles # NilFiles \/ ~alive[d] \/ repo[d].Status # IdleStatus
    /\ alive' = [alive EXCEPT ![d] = TRUE]
    /\ repo' = [repo EXCEPT ![d].LastLocalFiles = NilFiles, ![d].Status = IdleStatus]
    /\ settled' = [settled EXCEPT ![d] = "no"]
    /\ pass' = NoPass
    /\ track' = TrackRestart(d)
    /\ UNCHANGED <<now, paths, fs, foldsCase, extra, store, edits, ticks, engine, tasks, signed>>

(* The request signer: S3Client.request and _s3Request.  Hashes and MACs    *)
(* are kept as terms over their arguments.                                   *)

HEADER_LOCAL_MODIFIED == "x-amz-meta-local-modified"
HEADER_TOMBSTONE == "x-amz-meta-tombstone"

\* the clock readings of the signer, and their two renderings
SignTimes == {0, 1, DaySeconds}
AmzDate(t) ==
    CASE t = 0 -> "19700101T000000Z"
      [] t = 1 -> "19700101T000001Z"
      [] OTHER -> "19700102T000000Z"
DateStamp(t) == IF t < DaySeconds THEN "19700101" ELSE "19700102"

\* the paths of the requests; one holds a byte that awsEscapePath escapes
SignPaths == {"a.txt", FETCH_HEAD, INDEX_FILE, "my file.txt"}
awsEscapePath(p) == IF p = "my file.txt" THEN "my%20file.txt" ELSE p
\* the paths of the requests that carry headers of the caller
UploadPaths == {"my file.txt"}

Credentials == {[id |-> "AKID1", secret |-> "secret1"], [id |-> "AKID2", secret |-> "secret2"]}
Region == "us-east-1"
Host == "bucket.s3.example.com"

\* strings.ToLower and strings.TrimSpace on the names and values of headers
LowerName(k) == IF k = "Authorization" THEN "authorization" ELSE k
TrimSpace(v) == IF v = " " THEN "" ELSE v

\* the header names in byte order, which is what < on Go strings compares
HeaderOrder ==
    <<"authorization", "host", "x-amz-content-sha256", "x-amz-date",
      HEADER_LOCAL_MODIFIED, HEADER_TOMBSTONE>>
Rank(k) == CHOOSE i \in 1..Len(HeaderOrder) : HeaderOrder[i] = k

\* sort.Slice by the first component
RECURSIVE InsertSorted(_, _)
InsertSorted(s, x) ==
    IF s = <<>> THEN <<x>>
    ELSE IF Rank(x[1]) < Rank(Head(s)[1]) THEN <<x>> \o s
    ELSE <<Head(s)>> \o InsertSorted(Tail(s), x)

SortSlice_None(s) == s

RECURSIVE SortSlice(_)
SortSlice(s) == IF s = <<>> THEN <<>> ELSE InsertSorted(SortSlice(Tail(s)), Head(s))

Sha256Of(x) == <<"sha256", x>>
sign(key, msg) == <<"hmac-sha256", key, msg>>
getSignatureKey(secretKey, dateStamp, regionName, serviceName) ==
    sign(sign(sign(sign(<<"AWS4", secretKey>>, dateStamp), regionName), serviceName), "aws4_request")

\* _s3Request up to the Authorization header.  ord is the order in which the
\* range over the headers map visits its keys.
s3Request(method, uri, payload, cred, region, host, headers, t, ord) ==
    LET payloadHashHex == Sha256Hex(payload)
        amzDate == AmzDate(t)
        dateStamp == DateStamp(t)
        h == Assign(Assign(Assign(headers, "host", host),
                           "x-amz-content-sha256", payloadHashHex), "x-amz-date", amzDate)
        headersWithLowerKey == SortSlice([i \in 1..Len(ord) |-> <<LowerName(ord[i]), TrimSpace(h[ord[i]])>>])
        canonicalHeaders == headersWithLowerKey
        signedHeaders == [i \in 1..Len(headersWithLowerKey) |-> headersWithLowerKey[i][1]]
        canonicalRequest == <<method, awsEscapePath(uri), "", canonicalHeaders, signedHeaders, payloadHashHex>>
        credentialScope == <<dateStamp, region, "s3", "aws4_request">>
        signingKey == getSignatureKey(cred.secret, dateStamp, region, "s3")
        signature == sign(signingKey, <<"AWS4-HMAC-SHA256", amzDate, credentialScope, Sha256Of(canonicalRequest)>>)
        authorizationHeader ==
            [algorithm |-> "AWS4-HMAC-SHA256", Credential |-> <<cred.id, credentialScope>>,
             SignedHeaders |-> signedHeaders, Signature |-> signature]
    IN [canonicalHeaders |-> canonicalHeaders, signedHeaders |-> signedHeaders,
        Authorization |-> authorizationHeader,
        sent |-> DOMAIN Assign(h, "Authorization", authorizationHeader)]

\* the requests the client methods make: method, path, payload, headers
Call(method, p, payload, headers) == [method |-> method, path |-> p, payload |-> payload, headers |-> headers]
MetaHeaders(modified, tomb) ==
    Assign(Assign(EmptyMap, HEADER_LOCAL_MODIFIED, ToString(modified)), HEADER_TOMBSTONE, tomb)
Calls(t) ==
    {Call("PUT", p, data, MetaHeaders(m, "0")) : p \in UploadPaths, data \in Contents, m \in 1..MaxTime}
    \cup {Call("PUT", p, EmptyBytes, MetaHeaders(t, "1")) : p \in UploadPaths}
    \cup {Call(method, p, EmptyBytes, EmptyMap) : method \in {"GET", "HEAD", "DELETE"}, p \in SignPaths}
    \cup {Call("PUT", INDEX_FILE, IndexBytes, EmptyMap)}

NoSigned == [done |-> FALSE, call |-> Call("", "", EmptyBytes, EmptyMap), cred |-> [id |-> "", secret |-> ""],
             t |-> 0, out |-> [canonicalHeaders |-> <<>>, signedHeaders |-> <<>>]]

\* one request is signed
Request(call, cred, t, ord) ==
    /\ signed' = [done |-> TRUE, call |-> call, cred |-> cred, t |-> t,
                  out |-> s3Request(call.method, call.path, call.payload, cred, Region, Host,
                                    call.headers, t, ord)]
    /\ UNCHANGED <<syncVars, engine, tasks>>

-----------------------------------------------------------------------------
(* The daemon: SyncEngine, its timer goroutines and connection handlers    *)

MaxConns == 2
MaxFires == 1
NumRepos == 1

Repos == 1..NumRepos
Gens == 1..(MaxConns + 1)

\* a goroutine: what it is (kind), where it stands (pc), what it was asked
\* (cmd), the ticker and the stop channel its select waits on (tk, ch), the
\* list and the position of its SyncAll loop (list, i), what SyncAll did for
\* it (ran, refused), whether it saw the busy flag set (busy), its response (resp)
NoTask == [kind |-> "", pc |-> "off", cmd |-> "", tk |-> 0, ch |-> 0, list |-> 0, i |-> 0,
           ran |-> FALSE, refused |-> FALSE, busy |-> FALSE, resp |-> ""]
Goroutine(kind, pc) == [NoTask EXCEPT !.kind = kind, !.pc = pc]

\* the engine of a daemon that is not part of the run
\* how the pass of a repository that returned last ended (done: one has returned)
NoLastPass == [done |-> FALSE, failed |-> FALSE, at |-> 0]

NoEngine == [proc |-> "off", syncing |-> FALSE, syncTicker |-> 0, stopChan |-> 0,
             running |-> {}, pending |-> {}, closed |-> {},
             baseline |-> [g \in Gens |-> [r \in Repos |-> FALSE]], conns |-> 0, fires |-> 0,
             status |-> [r \in Repos |-> IdleStatus], lastPass |-> [r \in Repos |-> NoLastPass]]
NoTasks == EmptyBag

(* Initial states: the working directory, the stored snapshot and the     *)
(* remote index as earlier runs, the user and other devices may have left  *)
(* them.  Local files were written at a time of InitTimes; remote objects  *)
(* hold RemoteData.                                                        *)

InitTimes == 1..MaxTime
InitNow == {MaxTime, RetentionSeconds + MaxTime}
\* the times of the pass over universe U: for two unrelated paths a time at
\* which every tombstone of the index is older than the retention window
InitNowOf(U) ==
    IF U = IndexUniverse THEN {RetentionSeconds + MaxTime + 1} ELSE InitNow
\* the content of the object stored under a path
RemoteDataOf(k) == IF k = "foo.txt" THEN 1 ELSE 2

IsCaseUniverse(U) == \E p, q \in U : p # q /\ ToLower(p) = ToLower(q)

\* a universe of two paths: its local files carry one time, its stored snapshot
\* is absent or that of the files
IsPairUniverse(U) == Cardinality(U) > 1

LocalDataOf(U) == IF U = {FETCH_HEAD} THEN Contents ELSE {1}
LocalTimesOf(U) == IF IsPairUniverse(U) THEN {1} ELSE InitTimes
RemoteTimesOf(U) == IF IsCaseUniverse(U) THEN {MaxTime} ELSE InitTimes
ShasOf(U) == IF U = {FETCH_HEAD} THEN {"", Sha256Hex(RemoteDataOf(FETCH_HEAD))} ELSE {""}

\* the maps over subsets of U with values in V
PartialMaps(U, V) == UNION {[S -> V] : S \in SUBSET U}

LocalChoices(U, folds) ==
    {f \in PartialMaps(U, [data : LocalDataOf(U), mtime : LocalTimesOf(U)]) :
        folds => \A p, q \in DOMAIN f : ToLower(p) = ToLower(q) => p = q}

SnapshotOf(files) == [p \in DOMAIN files |-> FileItem(p, files[p].mtime, FALSE)]

LastChoices(U, files) ==
    IF IsPairUniverse(U) THEN {NilFiles, Files(SnapshotOf(files))}
    ELSE {NilFiles} \cup
         {Files(m) : m \in PartialMaps(U, [FilePath : U, ModTime : InitTimes, Tombstone : BOOLEAN])}

RemoteChoices(U) ==
    PartialMaps(U, [ModTime : RemoteTimesOf(U), Tombstone : {FALSE}, SHA256 : ShasOf(U)]
                   \cup [ModTime : RemoteTimesOf(U), Tombstone : {TRUE}, SHA256 : {""}])

\* the objects that stand behind an index
StoreOf(idx) ==
    [k \in (DOMAIN idx) \cup (IF idx = EmptyMap THEN {} ELSE {INDEX_FILE}) |->
        IF k = INDEX_FILE THEN IndexObject(idx)
        ELSE IF idx[k].Tombstone THEN FileObject(EmptyBytes, idx[k].ModTime, "1")
        ELSE FileObject(RemoteDataOf(k), idx[k].ModTime, "0")]

\* device A meets any snapshot and any index over a universe of Us; B is a new
\* device; Others: whether the root directory holds entries that are not listed
InitPassOver(Us, Others) ==
    /\ paths \in Us
    /\ now \in InitNowOf(paths)
    /\ \E folds \in BOOLEAN, ic \in BOOLEAN :
          /\ (folds \/ ic) => IsCaseUniverse(paths)
          /\ foldsCase = [d \in Devices |-> folds]
          /\ \E files \in LocalChoices(paths, folds) :
               \E last \in LastChoices(paths, files) :
                  /\ fs = [d \in Devices |-> IF d = "A" THEN files ELSE EmptyMap]
                  /\ repo = [d \in Devices |->
                               [IgnoreCase |-> ic,
                                LastLocalFiles |-> IF d = "A" THEN last ELSE NilFiles,
                                Status |-> IdleStatus]]
    /\ \E idx \in RemoteChoices(paths) : store = StoreOf(idx)
    /\ \E other \in Others : extra = [d \in Devices |-> other]
    /\ alive = [d \in Devices |-> TRUE]
    /\ pass = NoPass
    /\ settled = [d \in Devices |-> "no"]
    /\ track = NoTrack
    /\ edits = 0
    /\ ticks = 0
    /\ engine = NoEngine
    /\ tasks = NoTasks
    /\ signed = NoSigned

\* specification SpecPass: the passes of device A over one path, or over two
\* paths that differ by case
InitPass == InitPassOver(Universes, BOOLEAN)

\* specification SpecIndex: the passes of device A over the reserved index path
\* and another path, in a root directory that holds other entries
InitIndex == InitPassOver({IndexUniverse}, {TRUE})

NextPass == Sync("A", TRUE)

NextIndex == Sync("A", TRUE)

\* specification Spec: two devices start from their working directories and an empty prefix
Init ==
    /\ now = MaxTime
    /\ paths \in {U \in Universes : Cardinality(U) = 1}
    /\ \E folds \in BOOLEAN, ic \in BOOLEAN :
          /\ (folds \/ ic) => IsCaseUniverse(paths)
          /\ foldsCase = [d \in Devices |-> folds]
          /\ repo = [d \in Devices |->
                       [IgnoreCase |-> ic, LastLocalFiles |-> NilFiles, Status |-> IdleStatus]]
          /\ \E S \in [Devices -> SUBSET paths], m \in InitTimes :
                /\ folds => \A d \in Devices : \A p, q \in S[d] : ToLower(p) = ToLower(q) => p = q
                /\ fs = [d \in Devices |-> [p \in S[d] |-> [data |-> 1, mtime |-> m]]]
    /\ store = EmptyMap
    /\ \E other \in BOOLEAN : extra = [d \in Devices |-> other]
    /\ alive = [d \in Devices |-> TRUE]
    /\ pass = NoPass
    /\ settled = [d \in Devices |-> "no"]
    /\ track = NoTrack
    /\ edits = 0
    /\ ticks = 0
    /\ engine = NoEngine
    /\ tasks = NoTasks
    /\ signed = NoSigned

Next ==
    \/ \E d \in Devices : Sync(d, FALSE)
    \/ \E d \in Devices, p \in paths, data \in Contents : UserWrite(d, p, data)
    \/ \E d \in Devices, p \in paths : UserDelete(d, p)
    \/ \E dt \in TickSteps : Tick(dt)
    \/ \E d \in Devices : Restart(d)

-----------------------------------------------------------------------------
(* Actions of specification SpecEngine.  The fields of the engine are plain *)
(* memory shared by the goroutines: every read and every write is a step.   *)

Running == engine.proc = "running"
Goroutines == BagToSet(tasks)
At(r, pc) == Running /\ r \in Goroutines /\ r.pc = pc
Move(r, rec) == tasks' = (tasks (-) SetToBag({r})) (+) SetToBag({rec})
Ends(r) == tasks' = tasks (-) SetToBag({r})

\* where a goroutine goes on when its SyncAll call returns
Returned(rec) ==
    CASE rec.kind = "starter" -> [rec EXCEPT !.pc = "spawn"]
      [] rec.kind = "timer" -> Goroutine("timer", "enter")
      [] rec.cmd = "reload" -> [rec EXCEPT !.pc = "spawn"]
      [] OTHER -> [rec EXCEPT !.pc = "respond", !.resp = "success"]

\* runDaemon accepts a connection and handleConnection decodes its message
Arrive(cmd) ==
    /\ Running
    /\ engine.conns < MaxConns
    /\ tasks' = tasks (+) SetToBag({[Goroutine("conn", CASE cmd = "reload" -> "stop"
                                                        [] cmd = "sync" -> "is_syncing"
                                                        [] OTHER -> cmd)
                                       EXCEPT !.cmd = cmd]})
    /\ engine' = [engine EXCEPT !.conns = @ + 1]
    /\ UNCHANGED <<syncVars, signed>>

\* case "status"
HandleStatus(r) ==
    /\ At(r, "status")
    /\ Move(r, [r EXCEPT !.pc = "respond", !.resp = "success"])
    /\ UNCHANGED engine
    /\ UNCHANGED <<syncVars, signed>>

\* default: unknown command
HandleUnknown(r) ==
    /\ At(r, "unknown")
    /\ Move(r, [r EXCEPT !.pc = "respond", !.resp = "error"])
    /\ UNCHANGED engine
    /\ UNCHANGED <<syncVars, signed>>

\* case "shutdown": the response is written, then os.Exit(0)
HandleShutdown(r) ==
    /\ At(r, "shutdown")
    /\ Move(r, [r EXCEPT !.pc = "respond", !.resp = "success"])
    /\ engine' = [engine EXCEPT !.proc = "exited"]
    /\ UNCHANGED <<syncVars, signed>>

\* SyncEngine.Stop, called by UpdateConfig: closing a closed channel panics
Stop(r) ==
    /\ At(r, "stop")
    /\ IF engine.stopChan # 0 /\ engine.stopChan \in engine.closed
       THEN /\ engine' = [engine EXCEPT !.proc = "panicked",
                                        !.running = @ \ {engine.syncTicker}]
            /\ UNCHANGED tasks
       ELSE /\ engine' = [engine EXCEPT !.running = @ \ {engine.syncTicker},
                                        !.closed = @ \cup ({engine.stopChan} \ {0})]
            /\ Move(r, [r EXCEPT !.pc = "load"])
    /\ UNCHANGED <<syncVars, signed>>

\* UpdateConfig after Stop: LoadConfig, then the new repositories, ticker and channel
LoadConfig(r, ok) ==
    /\ At(r, "load")
    /\ IF ok
       THEN /\ engine' = [engine EXCEPT !.syncTicker = @ + 1, !.stopChan = @ + 1,
                                        !.running = @ \cup {engine.syncTicker + 1}]
            /\ Move(r, [r EXCEPT !.pc = "sa_check"])
       ELSE /\ Move(r, [r EXCEPT !.pc = "respond", !.resp = "error"])
            /\ UNCHANGED engine
    /\ UNCHANGED <<syncVars, signed>>

\* case "sync": engine.IsSyncing()
IsSyncing(r) ==
    /\ At(r, "is_syncing")
    /\ IF engine.syncing
       THEN Move(r, [r EXCEPT !.pc = "respond", !.resp = "error", !.busy = TRUE])
       ELSE Move(r, [r EXCEPT !.pc = "sa_check"])
    /\ UNCHANGED engine
    /\ UNCHANGED <<syncVars, signed>>

\* SyncAll, sync_engine.go 56-59: the read of s.syncing
SyncAllCheck(r) ==
    /\ At(r, "sa_check")
    /\ IF engine.syncing
       THEN Move(r, Returned([r EXCEPT !.refused = TRUE]))
       ELSE Move(r, [r EXCEPT !.pc = "sa_set"])
    /\ UNCHANGED engine
    /\ UNCHANGED <<syncVars, signed>>

\* SyncAll, sync_engine.go 60-65: the write of s.syncing, and the list the loop ranges over
SyncAllSet(r) ==
    /\ At(r, "sa_set")
    /\ engine' = [engine EXCEPT !.syncing = TRUE]
    /\ Move(r, [r EXCEPT !.pc = "sa_loop", !.list = engine.syncTicker, !.i = 1])
    /\ UNCHANGED <<syncVars, signed>>

\* SyncAll, sync_engine.go 65-67: repository.Sync() of the next repository; after the
\* last one the deferred function clears s.syncing
SyncAllLoop(r, outcome, kept) ==
    /\ At(r, "sa_loop")
    /\ LET base == engine.baseline[r.list][r.i] IN
       /\ outcome = "panic" => base
       /\ outcome # "ok" => kept = base
       /\ IF outcome = "panic"
          THEN /\ engine' = [engine EXCEPT !.proc = "panicked"]
               /\ UNCHANGED tasks
          ELSE IF r.i < NumRepos
          THEN /\ engine' = [engine EXCEPT !.baseline[r.list][r.i] = kept]
               /\ Move(r, [r EXCEPT !.i = @ + 1])
          ELSE /\ engine' = [engine EXCEPT !.baseline[r.list][r.i] = kept,
                                           !.syncing = FALSE]
               /\ Move(r, Returned([r EXCEPT !.ran = TRUE, !.list = 0, !.i = 0]))
    /\ UNCHANGED <<syncVars, signed>>

\* Start, sync_engine.go 38-48: the go statement
Spawn(r) ==
    /\ At(r, "spawn")
    /\ tasks' = (tasks (-) SetToBag({r}))
                   (+) SetToBag({Goroutine("timer", "enter")})
                   (+) (IF r.kind = "starter" THEN EmptyBag
                        ELSE SetToBag({[r EXCEPT !.pc = "respond", !.resp = "success"]}))
    /\ UNCHANGED engine
    /\ UNCHANGED <<syncVars, signed>>

\* encoder.Encode(resp) and the deferred conn.Close(): the goroutine ends
Respond(r) ==
    /\ At(r, "respond")
    /\ Ends(r)
    /\ UNCHANGED engine
    /\ UNCHANGED <<syncVars, signed>>

\* the timer goroutine evaluates the channels of its select
TimerEnter(r) ==
    /\ At(r, "enter")
    /\ Move(r, [r EXCEPT !.pc = "select", !.tk = engine.syncTicker, !.ch = engine.stopChan])
    /\ UNCHANGED engine
    /\ UNCHANGED <<syncVars, signed>>

\* case <-s.syncTicker.C
TimerTick(r) ==
    /\ At(r, "select")
    /\ r.tk \in engine.pending
    /\ engine' = [engine EXCEPT !.pending = @ \ {r.tk}]
    /\ Move(r, Goroutine("timer", "sa_check"))
    /\ UNCHANGED <<syncVars, signed>>

\* case <-s.stopChan: s.syncTicker.Stop() on the ticker the field holds now, then return
TimerStopped(r) ==
    /\ At(r, "select")
    /\ r.ch \in engine.closed
    /\ engine' = [engine EXCEPT !.running = @ \ {engine.syncTicker}]
    /\ Ends(r)
    /\ UNCHANGED <<syncVars, signed>>

\* a running ticker sends on its channel, which buffers one tick
TickerFires(g) ==
    /\ Running
    /\ g \in engine.running
    /\ g \notin engine.pending
    /\ engine.fires < MaxFires
    /\ engine' = [engine EXCEPT !.pending = @ \cup {g}, !.fires = @ + 1]
    /\ UNCHANGED tasks
    /\ UNCHANGED <<syncVars, signed>>

Commands == {"status", "reload", "sync", "shutdown", "unknown"}

\* the working directories and the store are not part of the run
NoDevices ==
    /\ now = 0
    /\ paths = {}
    /\ fs = [d \in Devices |-> EmptyMap]
    /\ foldsCase = [d \in Devices |-> FALSE]
    /\ extra = [d \in Devices |-> FALSE]
    /\ repo = [d \in Devices |-> [IgnoreCase |-> FALSE, LastLocalFiles |-> NilFiles, Status |-> IdleStatus]]
    /\ alive = [d \in Devices |-> FALSE]
    /\ store = EmptyMap
    /\ pass = NoPass
    /\ settled = [d \in Devices |-> "no"]
    /\ track = NoTrack
    /\ edits = 0
    /\ ticks = 0
    /\ signed = NoSigned

\* the daemon after runDaemon has built the engine and started `go engine.Start()`
InitEngine ==
    /\ \E base \in [Repos -> BOOLEAN] :
          engine = [NoEngine EXCEPT !.proc = "running", !.syncTicker = 1, !.stopChan = 1,
                                    !.running = {1}, !.baseline[1] = base]
    /\ tasks = SetToBag({Goroutine("timer", "enter"), Goroutine("starter", "sa_check")})
    /\ NoDevices

NextEngine ==
    \/ \E cmd \in Commands : Arrive(cmd)
    \/ \E r \in Goroutines : HandleStatus(r)
    \/ \E r \in Goroutines : HandleUnknown(r)
    \/ \E r \in Goroutines : HandleShutdown(r)
    \/ \E r \in Goroutines : Stop(r)
    \/ \E r \in Goroutines, ok \in BOOLEAN : LoadConfig(r, ok)
    \/ \E r \in Goroutines : IsSyncing(r)
    \/ \E r \in Goroutines : SyncAllCheck(r)
    \/ \E r \in Goroutines : SyncAllSet(r)
    \/ \E r \in Goroutines, outcome \in {"ok", "error", "panic"}, kept \in BOOLEAN : SyncAllLoop(r, outcome, kept)
    \/ \E r \in Goroutines : Spawn(r)
    \/ \E r \in Goroutines : Respond(r)
    \/ \E r \in Goroutines : TimerEnter(r)
    \/ \E r \in Goroutines : TimerTick(r)
    \/ \E r \in Goroutines : TimerStopped(r)
    \/ \E g \in Gens : TickerFires(g)

-----------------------------------------------------------------------------
(* Specification SpecStatus: the passes of the daemon with Repository.Sync  *)
(* taken in steps, so that the Status a pass writes is seen by the others.  *)
(* The configuration is not reloaded.                                        *)

\* Repository.Sync, repository.go 68-70: InProgress is set and Error cleared
SyncEnter(r) ==
    /\ At(r, "sa_loop")
    /\ engine' = [engine EXCEPT !.status[r.i] = [@ EXCEPT !.InProgress = TRUE, !.Error = ""]]
    /\ Move(r, [r EXCEPT !.pc = "sync_body"])
    /\ UNCHANGED <<syncVars, signed>>

\* Repository.Sync, repository.go 77-119: the stages; one that fails sets Error and returns
SyncReturn(r, failed) ==
    /\ At(r, "sync_body")
    /\ IF failed
       THEN /\ engine' = [engine EXCEPT !.status[r.i].Error = "Failed to sync files"]
            /\ Move(r, [r EXCEPT !.pc = "sync_failed"])
       ELSE /\ UNCHANGED engine
            /\ Move(r, [r EXCEPT !.pc = "sync_done"])
    /\ UNCHANGED <<syncVars, signed>>

\* Repository.Sync, repository.go 72-75: the deferred function; then SyncAll
\* goes on to the next repository or, after the last, clears s.syncing
SyncDeferred(r) ==
    /\ r \in Goroutines
    /\ Running
    /\ r.pc \in {"sync_failed", "sync_done"}
    /\ LET exit == [engine EXCEPT
                      !.status[r.i] = [@ EXCEPT !.InProgress = FALSE, !.LastSync = now],
                      !.lastPass[r.i] = [done |-> TRUE, failed |-> r.pc = "sync_failed", at |-> now]]
       IN IF r.i < NumRepos
          THEN /\ engine' = exit
               /\ Move(r, [r EXCEPT !.pc = "sa_loop", !.i = @ + 1])
          ELSE /\ engine' = [exit EXCEPT !.syncing = FALSE]
               /\ Move(r, Returned([r EXCEPT !.ran = TRUE, !.list = 0, !.i = 0]))
    /\ UNCHANGED <<syncVars, signed>>

\* the daemon after NewSyncEngine has run the first pass and `go engine.Start()` has begun
InitStatus ==
    /\ \E err \in {"", "Failed to sync files"} :
          engine = [NoEngine EXCEPT !.proc = "running", !.syncTicker = 1, !.stopChan = 1,
                                    !.running = {1},
                                    !.status = [i \in Repos |-> ExitStatus(0, err)],
                                    !.lastPass = [i \in Repos |-> [done |-> TRUE, failed |-> err # "", at |-> 0]]]
    /\ tasks = SetToBag({Goroutine("timer", "enter"), Goroutine("starter", "sa_check")})
    /\ NoDevices

NextStatus ==
    \/ \E cmd \in {"status", "sync"} : Arrive(cmd)
    \/ \E r \in Goroutines : HandleStatus(r)
    \/ \E r \in Goroutines : IsSyncing(r)
    \/ \E r \in Goroutines : SyncAllCheck(r)
    \/ \E r \in Goroutines : SyncAllSet(r)
    \/ \E r \in Goroutines : SyncEnter(r)
    \/ \E r \in Goroutines, failed \in BOOLEAN : SyncReturn(r, failed)
    \/ \E r \in Goroutines : SyncDeferred(r)
    \/ \E r \in Goroutines : Spawn(r)
    \/ \E r \in Goroutines : Respond(r)
    \/ \E r \in Goroutines : TimerEnter(r)
    \/ \E r \in Goroutines : TimerTick(r)
    \/ \E g \in Gens : TickerFires(g)
    \/ \E dt \in TickSteps : Tick(dt)

vars == <<syncVars, engine, tasks, signed>>

Spec == Init /\ [][Next]_vars

SpecPass == InitPass /\ [][NextPass]_vars

SpecIndex == InitIndex /\ [][NextIndex]_vars

SpecEngine == InitEngine /\ [][NextEngine]_vars

SpecStatus == InitStatus /\ [][NextStatus]_vars

\* specification SpecSign: the client signs one request after another
InitSign == NoDevices /\ engine = NoEngine /\ tasks = NoTasks

NextSign ==
    \E t \in SignTimes, cred \in Credentials :
        \E call \in Calls(t) :
            \E ord \in Perms(DOMAIN call.headers \cup {"host", "x-amz-content-sha256", "x-amz-date"}) :
                Request(call, cred, t, ord)

SpecSign == InitSign /\ [][NextSign]_vars

-----------------------------------------------------------------------------
(* Properties of a reconciliation pass *)

\* the calls of the last pass whose name is one of ops
CallsOf(ops) == {i \in 1..Len(pass.ops) : pass.ops[i][1] \in ops}
CalledOn(op, p) == \E i \in 1..Len(pass.ops) : pass.ops[i] = <<op, p>>

\* the last pass called Finish with changed=false, wrote and removed no local
\* file, and made no Put and no MarkTombstone
QuietPass ==
    /\ CalledOn("Finish", INDEX_FILE)
    /\ ~pass.changed
    /\ CallsOf({"Put", "MarkTombstone", "WriteFile", "Remove"}) = {}
    /\ fs[pass.dev] = pass.files0

\* C1: a pass that completes after a pass that completed without error (and
\* whose Deletes all succeeded), with no local or remote change and no clock
\* tick in between, calls Finish with changed=false, writes and removes no
\* local file and makes no Put and no MarkTombstone.
C1_Idempotence == pass.ok /\ pass.again = "yes" => QuietPass

\* C2: when a pass that completes finds a path of the stored snapshot gone from
\* the working directory, the index it leaves records that path as a tombstone
\* whose modifiedAt is the time of the pass.
C2_DeletionPropagates ==
    \A p \in DOMAIN pass.L :
        pass.ok /\ pass.L[p].Tombstone =>
            LET idx == List(store).items IN
            /\ Has(idx, p)
            /\ idx[p].Tombstone
            /\ idx[p].ModTime = pass.t

\* C3: both devices hold path p in sync; one of them deletes p, or rewrites it
\* with a newer modification time, and completes a Sync; once the other device
\* has completed a Sync within the retention window, its copy of p is gone
\* (respectively holds the new content and modification time) and that Sync
\* made no Put of p.
C3_CrossDevice ==
    track.phase = "applied" =>
        LET b == Other(track.by)
            p == track.path
        IN
        /\ pass.dev = b
        /\ track.kind = "del" => ~Has(fs[b], p)
        /\ track.kind = "upd" =>
              Has(fs[b], p) /\ fs[b][p] = [data |-> track.data, mtime |-> track.mtime]
        /\ ~CalledOn("Put", p)

\* the paths the last pass found in the local snapshot as files and not in the index
LocalOnly == {p \in DOMAIN pass.L : ~pass.L[p].Tombstone /\ ~Has(pass.R, p)}

\* the pass made a Put of p and the index it left records p with the local modification time
Recorded(p) ==
    LET idx == List(store).items IN
    /\ CalledOn("Put", p)
    /\ Has(idx, p)
    /\ idx[p] = RemoteItem(pass.L[p].ModTime, FALSE, "")

\* the store holds, under p, the content and the modification time of the local file
Stored(p) ==
    /\ Has(store, p)
    /\ store[p] = FileObject(pass.files0[p].data, pass.files0[p].mtime, "0")

\* C4 (as stated): a pass that completes uploads every local-only path: Put
\* stores its content under that path and the index holds a non-tombstone
\* record for it with the local modification time.
C4_UploadEveryPath == pass.ok => \A p \in LocalOnly : Recorded(p) /\ Stored(p)

\* C4 (amended): the same for every local-only path but the reserved index
\* path; for the reserved path Put stores nothing and the object under it
\* stays the index object.
C4_Upload ==
    pass.ok =>
        /\ \A p \in LocalOnly \ {INDEX_FILE} : Recorded(p) /\ Stored(p)
        /\ INDEX_FILE \in LocalOnly =>
              Has(store, INDEX_FILE) /\ store[INDEX_FILE].kind = "index"

C4_Witness ==
    /\ pass.ok
    /\ \E p \in LocalOnly : p # INDEX_FILE /\ Recorded(p) /\ Stored(p) /\ pass.R # EmptyMap

\* the paths the last pass found in the index as files and not in the local snapshot
RemoteOnly == {p \in DOMAIN pass.R : ~pass.R[p].Tombstone /\ ~Has(pass.L, p)}

\* the working directory holds p with the bytes stored under p and the
\* modification time of its index record, and the snapshot of the pass agrees
Materialized(p) ==
    LET d == pass.dev IN
    /\ StatExists(fs[d], foldsCase[d], p)
    /\ ReadFile(fs[d], foldsCase[d], p) = [data |-> pass.objs0[p].data, mtime |-> pass.R[p].ModTime]
    /\ Has(pass.local, p)
    /\ pass.local[p] = FileItem(p, pass.R[p].ModTime, FALSE)

\* C5: a pass that completes materializes every remote-only path that the
\* case-conflict rule did not skip: the local file holds the downloaded bytes
\* with the record's modifiedAt, and the in-memory snapshot holds the record.
C5_Download == pass.ok => \A p \in RemoteOnly \ pass.skipped : Materialized(p)

\* the tombstones of index idx that are more than 30 days old at the time of the last pass
Expired(idx) ==
    {p \in DOMAIN idx : idx[p].Tombstone /\ pass.t - idx[p].ModTime > 30 * DaySeconds}

\* the purge of the last pass deleted exactly the paths of E whose Delete
\* succeeded, dropped their keys from the index and set changed
PurgedExactly(E) ==
    LET idx == List(store).items IN
    /\ \A p \in E :
          /\ CalledOn("Delete", p)
          /\ p \notin pass.delFail => pass.changed /\ ~Has(idx, p)
    /\ \A p \in (DOMAIN pass.atPurge) \ E :
          /\ ~CalledOn("Delete", p)
          /\ Has(idx, p)

\* C6 (as stated): a pass that completes calls Delete on every tombstone of the
\* remote index that is more than 30 days old and, when Delete succeeds, drops
\* its key and sets changed; it deletes and drops no other record.
C6_ExpiryOfListed == pass.ok => PurgedExactly(Expired(pass.R))

\* C6 (amended): the same for the index as the purge loop finds it, after the
\* uploads, tombstone marks and downloads of the pass: a record of age 30 days
\* or less, and a record that is not a tombstone, is neither deleted nor dropped.
C6_Expiry == pass.ok => PurgedExactly(Expired(pass.atPurge))

C6_Witness ==
    /\ pass.ok
    /\ \E p \in Expired(pass.atPurge) :
          CalledOn("Delete", p) /\ p \notin pass.delFail /\ ~Has(List(store).items, p)

\* C7: with IgnoreCase enabled, a pass that completes leaves a remote-only path
\* alone when the working directory holds a file whose name differs from it
\* only by case: no Get, no local write, no file under the remote name, and
\* the record and the object of the remote path as before the pass.
C7_CaseConflictSkip ==
    pass.ok /\ repo[pass.dev].IgnoreCase =>
        \A p \in RemoteOnly, q \in DOMAIN pass.files0 :
            p # q /\ DirOf(p) = DirOf(q) /\ ToLower(BaseOf(p)) = ToLower(BaseOf(q)) =>
                /\ ~CalledOn("Get", p)
                /\ ~CalledOn("WriteFile", p)
                /\ ~Has(fs[pass.dev], p)
                /\ Has(store, p) /\ store[p] = pass.objs0[p]
                /\ Has(List(store).items, p) /\ List(store).items[p] = pass.R[p]

-----------------------------------------------------------------------------
(* Properties of the daemon *)

\* the goroutines that are inside the repository loop of SyncAll
InLoop == {r \in Goroutines : r.pc = "sa_loop"}

\* C8: at most one invocation of SyncAll is inside its repository loop.
C8_MutualExclusion ==
    /\ Cardinality(InLoop) <= 1
    /\ \A r \in InLoop : CopiesIn(r, tasks) = 1

\* C9: a sync command answers success only when its own SyncAll call ran the
\* pass, and never when that call was refused by the busy flag.
C9_ForcedSyncResponse ==
    \A r \in Goroutines :
        r.cmd = "sync" /\ r.pc = "respond" =>
            /\ r.resp = "success" => r.ran
            /\ r.refused => r.resp = "error"

\* C10: after startup the daemon process never panics.
C10_NoCrash == engine.proc # "panicked"

\* the connections that have answered success to a reload, when that reload
\* is the only command the daemon has received
ReloadDone ==
    {r \in Goroutines : r.cmd = "reload" /\ r.pc = "respond" /\ r.resp = "success" /\ engine.conns = 1}

\* C11: once UpdateConfig has returned successfully, the ticker the engine
\* holds is running and a timer goroutine waits on it, or will when it next
\* enters its select.
C11_ReloadRestartsTimer ==
    ReloadDone # {} =>
        /\ engine.syncTicker \in engine.running
        /\ \E t \in Goroutines :
              /\ t.kind = "timer"
              /\ t.pc = "select" => t.tk = engine.syncTicker

-----------------------------------------------------------------------------
(* Properties of aborted passes *)

\* the last pass returned an error
Aborted == pass.stage \in {"local", "remote", "sync"}

\* the object under the reserved index path is the one the pass found
IndexObjectKept ==
    /\ Has(store, INDEX_FILE) <=> Has(pass.objs0, INDEX_FILE)
    /\ Has(store, INDEX_FILE) => store[INDEX_FILE] = pass.objs0[INDEX_FILE]

\* C12: a pass in which the local listing, the remote listing or an action of
\* the local-wins or remote-wins loop fails does not call Finish, leaves the
\* index object as it was, sets a non-empty Error and leaves LastLocalFiles
\* as it was before the pass.
C12_AbortPolicy ==
    [][Aborted' /\ pass'.fault.stage # "finish" =>
          /\ ~CalledOn("Finish", INDEX_FILE)'
          /\ IndexObjectKept'
          /\ repo'[pass'.dev].Status.Error # ""
          /\ repo'[pass'.dev].LastLocalFiles = repo[pass'.dev].LastLocalFiles]_vars

\* C13: no pass that completes adds a record keyed by the reserved index path
\* to the index, and none downloads the object under the reserved path as a
\* file of the repository.
C13_IndexNotInSyncSet ==
    pass.ok =>
        /\ ~Has(pass.R, INDEX_FILE) => ~Has(List(store).items, INDEX_FILE)
        /\ ~CalledOn("Get", INDEX_FILE)

\* the last pass found the special path newer locally than its live index
\* record, with content whose hash is the one the record stores
HashSkipCase ==
    /\ pass.ok
    /\ Has(pass.L, FETCH_HEAD) /\ ~pass.L[FETCH_HEAD].Tombstone
    /\ Has(pass.R, FETCH_HEAD) /\ ~pass.R[FETCH_HEAD].Tombstone
    /\ pass.L[FETCH_HEAD].ModTime > pass.R[FETCH_HEAD].ModTime
    /\ Sha256Hex(pass.files0[FETCH_HEAD].data) = pass.R[FETCH_HEAD].SHA256

\* C14: in that case the pass makes no Put of the special path, leaves its
\* index record and the stored object as they were, and does not set changed.
C14_HashSkip ==
    HashSkipCase =>
        /\ ~CalledOn("Put", FETCH_HEAD)
        /\ List(store).items[FETCH_HEAD] = pass.R[FETCH_HEAD]
        /\ store[FETCH_HEAD] = pass.objs0[FETCH_HEAD]
        /\ ~pass.changed

C14_Witness == HashSkipCase /\ store = pass.objs0 /\ pass.L[FETCH_HEAD].ModTime = MaxTime

-----------------------------------------------------------------------------
(* Properties of the status of a repository *)

\* the goroutines that are executing Sync of repository i
Executing(i) == {r \in Goroutines : r.i = i /\ r.pc \in {"sync_body", "sync_failed", "sync_done"}}

\* C15: whenever no Sync of a repository is executing, its InProgress is
\* false, its LastSync is the time the last pass returned, and its Error is
\* non-empty exactly when the pass that returned last had failed.
C15_StatusProtocol ==
    \A i \in Repos :
        Executing(i) = {} /\ engine.lastPass[i].done =>
            /\ ~engine.status[i].InProgress
            /\ engine.status[i].LastSync = engine.lastPass[i].at
            /\ engine.status[i].Error # "" <=> engine.lastPass[i].failed

-----------------------------------------------------------------------------
(* Properties of the request signer *)

\* the signed-headers list names the canonical headers, in strictly
\* increasing byte order, in lower case; it holds the three headers the
\* signer adds and every header of the caller, and not Authorization
SignedHeadersExact ==
    LET out == signed.out
        names == {out.signedHeaders[i] : i \in 1..Len(out.signedHeaders)}
    IN
    /\ Len(out.signedHeaders) = Len(out.canonicalHeaders)
    /\ \A i \in 1..Len(out.signedHeaders) :
          /\ out.signedHeaders[i] = out.canonicalHeaders[i][1]
          /\ out.signedHeaders[i] = LowerName(out.signedHeaders[i])
    /\ \A i, j \in 1..Len(out.signedHeaders) :
          i < j => Rank(out.signedHeaders[i]) < Rank(out.signedHeaders[j])
    /\ names = {"host", "x-amz-content-sha256", "x-amz-date"}
                  \cup {LowerName(k) : k \in DOMAIN signed.call.headers}
    /\ "authorization" \notin names
    /\ out.Authorization.SignedHeaders = out.signedHeaders

\* two runs of the signer on the same request, credentials and time give the same header
SameHeader ==
    signed.done /\ signed'.done /\ signed'.call = signed.call /\ signed'.cred = signed.cred
        /\ signed'.t = signed.t
    => signed'.out = signed.out

\* C16: the Authorization header is a function of the credentials, the
\* request and the time alone, and its signed-headers list is exactly the
\* sorted lower-cased names of the canonical headers, with host,
\* x-amz-content-sha256 and x-amz-date and without Authorization.
C16_SigningDeterminism == [](signed.done => SignedHeadersExact) /\ [][SameHeader]_vars

\* a Put request, which carries two headers of its own, has been signed
C16_Witness ==
    /\ signed.done
    /\ signed.call.method = "PUT"
    /\ Len(signed.out.signedHeaders) = 5
    /\ signed.out.signedHeaders[5] = HEADER_TOMBSTONE
    /\ "Authorization" \in signed.out.sent


\* the paths, other than the path compared by hash, that the last pass found on
\* both sides with different modification times and did not skip
BothDiffer ==
    {p \in ((DOMAIN pass.L) \cap (DOMAIN pass.R)) \ (pass.skipped \cup {FETCH_HEAD}) :
        pass.L[p].ModTime # pass.R[p].ModTime}

\* the newer of the two records of p: its time and its tombstone flag
Newer(p) ==
    IF pass.L[p].ModTime > pass.R[p].ModTime
    THEN [ModTime |-> pass.L[p].ModTime, Tombstone |-> pass.L[p].Tombstone]
    ELSE [ModTime |-> pass.R[p].ModTime, Tombstone |-> pass.R[p].Tombstone]

\* the index records p with the time and the flag of the newer side
RecordIsNewer(p) ==
    LET idx == List(store).items IN
    /\ Has(idx, p)
    /\ idx[p].ModTime = Newer(p).ModTime
    /\ idx[p].Tombstone = Newer(p).Tombstone

\* the working directory agrees with the newer side: no entry named p when it
\* is a tombstone, else a file reached under p with the time of the record
LocalAgrees(p) ==
    LET d == pass.dev IN
    IF Newer(p).Tombstone THEN ~Has(fs[d], p)
    ELSE /\ StatExists(fs[d], foldsCase[d], p)
         /\ ReadFile(fs[d], foldsCase[d], p).mtime = Newer(p).ModTime

\* C17: after a pass that completes, every path found on both sides
\* with different modification times, the hash-compared path and the paths
\* skipped by the case rule apart, has an index record with the larger time and
\* the tombstone flag of the newer side, and the working directory agrees with
\* it: the file is there with that time, or is gone when the winner is a tombstone.
C17_LastWriterWins ==
    pass.ok => \A p \in BothDiffer : RecordIsNewer(p) /\ LocalAgrees(p)


\* the last pass reached the classification of compareAndSync
Classified == pass.stage \in {"sync", "ok"}

\* the paths the last pass found on both sides with equal modification times
Ties == {p \in (DOMAIN pass.L) \cap (DOMAIN pass.R) : pass.L[p].ModTime = pass.R[p].ModTime}

\* no path is in both sets, and a tie is in neither
Partitioned ==
    LET lnew == DOMAIN localNewerItems(pass.L, pass.R)
        rnew == DOMAIN remoteNewerItems(pass.L, pass.R)
    IN /\ lnew \cap rnew = {}
       /\ Ties \cap (lnew \cup rnew) = {}

\* the pass made no call on p, and the entry of p in the working directory and
\* the record of p in the snapshot are as they were
Untouched(p) ==
    LET d == pass.dev IN
    /\ \A op \in {"Put", "Get", "MarkTombstone", "WriteFile", "Remove"} : ~CalledOn(op, p)
    /\ Has(fs[d], p) = Has(pass.files0, p)
    /\ Has(fs[d], p) => fs[d][p] = pass.files0[p]
    /\ pass.ok => Has(pass.local, p) /\ pass.local[p] = pass.L[p]

\* the index holds the record of p that the pass listed
RecordKept(p) ==
    LET idx == List(store).items IN Has(idx, p) /\ idx[p] = pass.R[p]

\* C18: in one pass no path is in both the local-wins and the
\* remote-wins set; a path found on both sides with equal modification times is
\* in neither, the pass calls none of Put, Get, MarkTombstone on it, touches no
\* local file of it and leaves its index record and its snapshot record exactly
\* as they were, also when one side is a tombstone and the other a live file.
C18_TieIsNoOp ==
    Classified => /\ Partitioned
                  /\ \A p \in Ties : Untouched(p) /\ RecordKept(p)


\* C19: in every sequence of passes of one Repository, aborted passes included,
\* Sync inserts a tombstone record for a path only if something other than the
\* sync engine removed the path from the working directory: a file that an
\* earlier pass removed is not reported as a fresh local deletion.
C19_TombstoneOnlyForLocalDeletion ==
    \A p \in DOMAIN pass.L : pass.L[p].Tombstone => p \notin pass.gone0

\* the tombstones of the listed index whose files earlier passes of the device removed
AppliedTombstones == {p \in pass.gone0 \cap (DOMAIN pass.R) : pass.R[p].Tombstone}

\* C20: a pass that completes, on a device that applied the tombstone of path p
\* and saw no local change to p since, leaves the record's modifiedAt as it
\* was, or purges the record when it is older than the retention window.
C20_TombstoneNotReflagged ==
    pass.ok =>
        \A p \in AppliedTombstones :
            LET idx == List(store).items IN
            IF Has(idx, p) THEN idx[p] = pass.R[p]
            ELSE p \in Expired(pass.R) /\ CalledOn("Delete", p)


\* C21: in every sequence of passes the stored index object is overwritten or
\* removed only by Finish: no MarkTombstone and no Delete of a pass targets the
\* reserved index path, and a pass leaves an index object that List decodes
\* whenever it found one.
C21_OnlyFinishWritesIndex ==
    /\ ~CalledOn("MarkTombstone", INDEX_FILE)
    /\ ~CalledOn("Delete", INDEX_FILE)
    /\ pass.dev # "" /\ ~List(pass.objs0).err => ~List(store).err


\* the last pass listed a root directory that exists and has no entry
EmptiedRoot ==
    /\ pass.dev # ""
    /\ pass.stage # "local"
    /\ GetLocalFiles(pass.files0, extra[pass.dev]).isNil

\* C22: when the root directory exists and is empty, Sync goes on with the
\* pass: it does not crash, and (seen on a pass that did not complete, whose
\* prior snapshot is still stored) its snapshot holds a tombstone record with
\* the time of the pass for every non-tombstone path of the prior snapshot.
C22_EmptiedDirectory ==
    EmptiedRoot =>
        /\ ~pass.panic
        /\ ~pass.ok =>
              LET last == repo[pass.dev].LastLocalFiles.items IN
              \A p \in DOMAIN last :
                  ~last[p].Tombstone =>
                      Has(pass.L, p) /\ pass.L[p] = FileItem(last[p].FilePath, pass.t, TRUE)


\* the paths the last pass wrote after a Get, and the paths of remote
\* tombstones it applied
Downloaded == {p \in DOMAIN pass.R : CalledOn("WriteFile", p)}
TombstonesApplied ==
    {p \in DOMAIN remoteNewerItems(pass.L, pass.R) : pass.R[p].Tombstone /\ p \notin pass.skipped}

\* C23: after every Sync that completes, whatever snapshot it started from (the
\* absent one of an empty root directory included), the stored snapshot holds
\* a non-tombstone record with the index record's modifiedAt for every file the
\* pass downloaded, no record for a path removed for a remote tombstone, and
\* for every other path the record of the snapshot taken at the start of the
\* pass, synthesized tombstones included.
C23_SnapshotMirrorsSync ==
    pass.ok =>
        LET snap == repo[pass.dev].LastLocalFiles.items IN
        /\ \A p \in Downloaded :
              Has(snap, p) /\ snap[p] = FileItem(p, pass.R[p].ModTime, FALSE)
        /\ \A p \in TombstonesApplied : ~Has(snap, p)
        /\ \A p \in (DOMAIN pass.L) \ (Downloaded \cup TombstonesApplied) :
              Has(snap, p) /\ snap[p] = pass.L[p]


\* the keys of the index the last pass listed that a later List no longer returns
KeysGone ==
    IF List(store).err THEN {} ELSE {p \in DOMAIN pass.R : ~Has(List(store).items, p)}

\* C24: across any sequence of passes a key leaves the remote index only when a
\* pass purges a tombstone record older than the retention window and the
\* Delete succeeds; a live record is never dropped.
C24_KeysLeaveByPurge ==
    \A p \in KeysGone :
        /\ p \in Expired(IF pass.ok THEN pass.atPurge ELSE pass.R)
        /\ CalledOn("Delete", p)
        /\ p \notin pass.delFail



\* the last pass called Finish
ReachedFinish == CalledOn("Finish", INDEX_FILE)

\* C25: in every pass that reaches Finish, changed is true exactly when the
\* index map passed to Finish differs from the map List returned at the start
\* of the pass; a pass that completes has rewritten the index object with that
\* map when changed, and has left the object as it was otherwise.
C25_ChangedIsExact ==
    ReachedFinish =>
        /\ pass.changed <=> pass.meta # pass.R
        /\ pass.ok /\ pass.changed =>
              Has(store, INDEX_FILE) /\ store[INDEX_FILE] = IndexObject(pass.meta)
        /\ pass.ok /\ ~pass.changed => IndexObjectKept

\* a pass that downloaded a file and had no change of the index to write
C25_Witness ==
    /\ pass.ok
    /\ ReachedFinish
    /\ ~pass.changed
    /\ CallsOf({"WriteFile"}) # {}
    /\ pass.meta = pass.R


\* a Delete of the last pass failed, and no other call of it was made to fail
DeleteFailed == pass.delFail # {} /\ pass.fault = NoFault

\* the stored snapshot is the one the last pass ended with
SnapshotAdvanced ==
    repo[pass.dev].LastLocalFiles =
        IF GetLocalFiles(pass.files0, extra[pass.dev]).isNil THEN NilFiles ELSE Files(pass.local)

\* C26: when Delete fails for an expired tombstone, the record stays in the
\* index, changed is set only for a record that did change, every expired
\* tombstone still has Delete called on it, Finish is called, the pass
\* completes with an empty Error and the stored snapshot is advanced; the next
\* pass that completes attempts the purge again.
C26_PurgeFailureNotFatal ==
    /\ DeleteFailed =>
          /\ pass.ok
          /\ \A p \in pass.delFail : RecordKept(p)
          /\ pass.changed <=> pass.meta # pass.R
          /\ \A p \in Expired(pass.atPurge) : CalledOn("Delete", p)
          /\ ReachedFinish
          /\ repo[pass.dev].Status.Error = ""
          /\ SnapshotAdvanced
    /\ pass.ok /\ pass.again = "unpurged" => CallsOf({"Delete"}) # {}

\* one Delete failed and another expired tombstone was purged in the same pass
C26_Witness ==
    /\ DeleteFailed
    /\ pass.ok
    /\ \E q \in Expired(pass.atPurge) \ pass.delFail :
          CalledOn("Delete", q) /\ ~Has(List(store).items, q)


\* the place of a call in the order of a pass: local-wins calls, remote-wins
\* calls, purge, Finish
Phase(op) ==
    CASE op \in {"Put", "MarkTombstone"} -> 1
      [] op \in {"Get", "WriteFile", "Remove"} -> 2
      [] op = "Delete" -> 3
      [] OTHER -> 4

\* C27: within one pass every Put and MarkTombstone of the local-wins set comes
\* before any Get, local write or local removal of the remote-wins set, every
\* Delete of the purge comes after all of them, and Finish is the last call.
C27_ActionOrdering ==
    /\ \A i, j \in 1..Len(pass.ops) : i < j => Phase(pass.ops[i][1]) <= Phase(pass.ops[j][1])
    /\ \A i \in 1..Len(pass.ops) : pass.ops[i][1] = "Finish" => i = Len(pass.ops)

\* a pass with a local-wins call, a remote-wins call, a Delete and Finish
C27_Witness ==
    /\ pass.ok
    /\ CallsOf({"Put", "MarkTombstone"}) # {}
    /\ CallsOf({"Get", "WriteFile", "Remove"}) # {}
    /\ CallsOf({"Delete"}) # {}
    /\ ReachedFinish


\* the last pass uploaded the hash-compared path with Put
FetchHeadUploaded == CalledOn("Put", FETCH_HEAD)

\* C28: after every pass that uploads .git/FETCH_HEAD with Put (the first
\* upload and an upload over a tombstone record included), the record of the
\* path in the index map of the pass holds the hex SHA-256 of the uploaded bytes.
C28_StoredHashTracksUpload ==
    FetchHeadUploaded /\ Has(pass.meta, FETCH_HEAD) =>
        pass.meta[FETCH_HEAD].SHA256 = Sha256Hex(ReadFile(pass.files0, foldsCase[pass.dev], FETCH_HEAD).data)


\* C29: after its Repository has been built again by a reload, a device has no
\* stored snapshot, so its first pass that completes synthesizes no tombstone,
\* and a file the user deleted between the last pass before the reload and
\* that pass, still a live record of the index, is downloaded again and not
\* marked as a tombstone.
C29_ReloadDropsBaseline ==
    /\ track.phase = "reloaded" => repo[track.by].LastLocalFiles = NilFiles
    /\ track.phase = "redone" =>
          LET p == track.path IN
          /\ pass.ok /\ pass.dev = track.by
          /\ \A q \in DOMAIN pass.L : ~pass.L[q].Tombstone
          /\ ~CalledOn("MarkTombstone", p)
          /\ Has(pass.R, p) /\ ~pass.R[p].Tombstone /\ ~Has(pass.L, p)
          /\ CalledOn("Get", p) /\ CalledOn("WriteFile", p)
          /\ Has(fs[pass.dev], p)
          /\ RecordKept(p)

\* the deleted file is back after the first pass that follows the reload
C29_Witness ==
    /\ track.phase = "redone"
    /\ track.kind = "del"
    /\ CalledOn("WriteFile", track.path)
    /\ Has(fs[track.by], track.path)

=============================================================================
